---- MODULE Spec2Model ----
(***************************************************************************)
(* Model of the two batch jobs of rr_data:                                 *)
(*   - the archival backfill  (src/unnamed/part_000, run)                  *)
(*   - the live update        (src/scripts/generate_stats.js, run)         *)
(* and of the two directories they share, archive/ and players/.           *)
(*                                                                         *)
(* Time: one model time unit is one hour.  An instant is the number of     *)
(* hours since the epoch; a feed timestamp (epoch seconds in the code) is  *)
(* an instant, and the multiplication by 1000 that turns it into the       *)
(* milliseconds of a Date is not modelled.                                 *)
(*                                                                         *)
(* A date string is the record [wall, zone]: the clock reading written in  *)
(* the string and its zone designator ("Z" for toISOString, "+hh:00" for   *)
(* git's %aI).  Two date strings are === exactly when the records are      *)
(* equal; new Date(s) is the instant wall - offset(zone).                  *)
(*                                                                         *)
(* An fc is the sequence of its characters.  An absent or empty fc is <<>>,*)
(* an absent or empty name is "", an unset discord field is "": the code   *)
(* tests these only for truthiness.  An optional number (ev, vr) or object *)
(* (vrStats) is <<>> when absent and <<x>> when present.                   *)
(***************************************************************************)
EXTENDS Integers, Sequences, FiniteSets, TLC

VARIABLES
    clock,          \* the wall clock (Date.now()), in hours
    archive,        \* the directory archive/: [exists, files], files: file name -> record
    players,        \* the directory players/: file name -> record
    pcU,            \* position of the live update's run()
    CF_WORKER_URL,  \* generate_stats.js CF_WORKER_URL is set (process.env.CF_WORKER_URL)
    playerMap,      \* generate_stats.js playerMap, in insertion order
    hasArchive,     \* generate_stats.js hasArchive
    feedBody,       \* generate_stats.js historyRes.data
    cfHistoryRows,  \* generate_stats.js cfHistoryRows
    discordCache,   \* generate_stats.js discordCache: fc -> value ("" when absent)
    now,            \* generate_stats.js now
    cursor,         \* index in playerMap of the next iteration of the loop of step 4
    lastRun,        \* what the last completed live update saw and left in memory
    runs,           \* number of live updates started, when they are counted
    pcB,            \* position of the backfill's run()
    commits,        \* part_000 commits, oldest first: [hash, date, content]
    pending,        \* indices of the commits whose task has not settled yet
    snapshotMap,    \* part_000 snapshotMap, in insertion order: [date, players]
    backfilled      \* the one-time backfill has been started

vars == <<clock, archive, players, pcU, CF_WORKER_URL, playerMap, hasArchive, feedBody,
          cfHistoryRows, discordCache, now, cursor, lastRun, runs,
          pcB, commits, pending, snapshotMap, backfilled>>

updateVars == <<pcU, CF_WORKER_URL, playerMap, hasArchive, feedBody, cfHistoryRows,
                discordCache, now, cursor, lastRun, runs>>

backfillVars == <<pcB, commits, pending, snapshotMap, backfilled>>

----------------------------------------------------------------------------
(* Program constants *)

oneDay == 24
sevenDays == 7 * oneDay
thirtyDays == 30 * oneDay

----------------------------------------------------------------------------
(* Dates *)

ZoneOffset(zone) ==
    CASE zone = "Z" -> 0
      [] zone = "+00:00" -> 0
      [] zone = "+01:00" -> 1
      [] zone = "+02:00" -> 2

\* new Date(s).getTime()
DateOf(s) == s.wall - ZoneOffset(s.zone)

\* new Date(timestamp * 1000).toISOString()
toISOString(timestamp) == [wall |-> timestamp, zone |-> "Z"]

----------------------------------------------------------------------------
(* File names *)

SafeChars ==
    {"0", "1", "2", "3", "4", "5", "6", "7", "8", "9", "-",
     "a", "b", "c", "d", "e", "f", "g", "h", "i", "j", "k", "l", "m",
     "n", "o", "p", "q", "r", "s", "t", "u", "v", "w", "x", "y", "z",
     "A", "B", "C", "D", "E", "F", "G", "H", "I", "J", "K", "L", "M",
     "N", "O", "P", "Q", "R", "S", "T", "U", "V", "W", "X", "Y", "Z"}

\* fc.replace(/[^a-zA-Z0-9-]/g, '_')
safeFC(fc) == [i \in 1..Len(fc) |-> IF fc[i] \in SafeChars THEN fc[i] ELSE "_"]

----------------------------------------------------------------------------
(* Array.prototype.sort with a comparator key(a) - key(b): a stable sort.   *)
(* The array is given as the sequence of [key, val] of its elements.       *)

\* s is sorted; x goes after every element whose key is <= x.key
RECURSIVE InsertByKey(_, _)
InsertByKey(s, x) ==
    IF s = <<>> THEN <<x>>
    ELSE IF s[Len(s)].key <= x.key THEN Append(s, x)
    ELSE Append(InsertByKey(SubSeq(s, 1, Len(s) - 1), x), s[Len(s)])

RECURSIVE SortByKey(_)
SortByKey(s) ==
    IF s = <<>> THEN <<>>
    ELSE InsertByKey(SortByKey(SubSeq(s, 1, Len(s) - 1)), s[Len(s)])

Vals(s) == [i \in 1..Len(s) |-> s[i].val]

----------------------------------------------------------------------------
(* The player map (a JS Map: keys in insertion order) *)

HasKey(map, fc) == \E i \in 1..Len(map) : map[i].fc = fc

IndexOf(map, fc) == CHOOSE i \in 1..Len(map) : map[i].fc = fc

\* playerMap.set(data.fc, data)
MapSet(map, data) ==
    IF HasKey(map, data.fc)
    THEN [map EXCEPT ![IndexOf(map, data.fc)] = data]
    ELSE Append(map, data)

----------------------------------------------------------------------------
(* Reading a player record of a snapshot *)

\* parseInt(p.ev || p.vr || 0), for ev and vr that are integers when present
currentVROf(p) ==
    IF p.ev # <<>> /\ p.ev[1] # 0 THEN p.ev[1]
    ELSE IF p.vr # <<>> /\ p.vr[1] # 0 THEN p.vr[1]
    ELSE 0

\* mutant of NameOr: the name of the record is taken as it is
NameAsGiven(name, other) == name

\* p.name || 'Unknown'  and  p.name || entry.name
NameOr(name, other) == IF name # "" THEN name ELSE other

----------------------------------------------------------------------------
(* Live update, step 3: the fold of the feed rows into the player map *)

\* mutant of exists: only the last entry is compared
existsLastOnly(vr_history, rowDate) ==
    Len(vr_history) > 0 /\ vr_history[Len(vr_history)].date = rowDate

\* entry.vr_history.some(h => h.date === rowDate)
exists(vr_history, rowDate) ==
    \E k \in 1..Len(vr_history) : vr_history[k].date = rowDate

\* mutant of lastTotalOf: an empty history is baselined against zero
lastTotalOrZero(vr_history, currentVR) ==
    IF Len(vr_history) > 0 THEN vr_history[Len(vr_history)].totalVR ELSE 0

\* entry.vr_history.length > 0 ? entry.vr_history[length - 1].totalVR : currentVR
lastTotalOf(vr_history, currentVR) ==
    IF Len(vr_history) > 0 THEN vr_history[Len(vr_history)].totalVR ELSE currentVR

\* the body of playersInRow.forEach, for one player record p
LiveRecord(map, p, rowDate) ==
    IF p.fc = <<>> THEN map
    ELSE
      LET m1 == IF HasKey(map, p.fc) THEN map
                ELSE Append(map, [name |-> NameOr(p.name, "Unknown"),
                                  fc |-> p.fc,
                                  vr_history |-> <<>>,
                                  discord |-> "unknown",
                                  vrStats |-> <<>>])
          i == IndexOf(m1, p.fc)
          entry == m1[i]
          currentVR == currentVROf(p)
          h == entry.vr_history
          pushed == IF exists(h, rowDate) THEN h
                    ELSE Append(h, [date |-> rowDate,
                                    vrChange |-> currentVR - lastTotalOf(h, currentVR),
                                    totalVR |-> currentVR])
      IN [m1 EXCEPT ![i] = [entry EXCEPT !.name = NameOr(p.name, entry.name),
                                         !.vr_history = pushed]]

RECURSIVE LiveRecords(_, _, _)
LiveRecords(map, playersInRow, rowDate) ==
    IF playersInRow = <<>> THEN map
    ELSE LiveRecords(LiveRecord(map, playersInRow[1], rowDate), Tail(playersInRow), rowDate)

\* A row is [timestamp, data]; timestamp is <<>> or <<t>>; data is
\* [str, t, recs]: str says that row.data is a string (the rest is what
\* JSON.parse makes of it), t is "array", "map", "absent" or "invalid" (a
\* string that does not parse), recs the player records in array or key order.

\* new Date(undefined * 1000).toISOString() throws RangeError;
\* Object.values(undefined) throws TypeError
RowThrows(row) ==
    \/ row.timestamp = <<>>
    \/ row.data.t = "absent"

\* try { rowData = JSON.parse(rowData); } catch(e) { return; }
RowSkipped(row) == row.data.str /\ row.data.t = "invalid"

\* cfHistoryRows.forEach(row => ...); the rows before a throwing row are merged
RECURSIVE LiveRows(_, _)
LiveRows(map, rows) ==
    IF rows = <<>> THEN [fatal |-> FALSE, map |-> map]
    ELSE IF RowThrows(rows[1]) THEN [fatal |-> TRUE, map |-> map]
    ELSE IF RowSkipped(rows[1]) THEN LiveRows(map, Tail(rows))
    ELSE LiveRows(LiveRecords(map, rows[1].data.recs, toISOString(rows[1].timestamp[1])),
                  Tail(rows))

----------------------------------------------------------------------------
(* Live update, step 2: the shapes of the feed response *)

\* historyRes.data is [str, v]: str says that it is a string, and v is then
\* what JSON.parse makes of it.  v is [t, res, rows]: t is "array", "object",
\* "null", "number", "string" or "invalid" (a string that does not parse);
\* for an object, res is the kind of its results property ("array",
\* "absent", "zero", "number", "string", "object"); rows are the elements of
\* the array, or of the results array.  v.t = "error": axios.get throws.

\* value || []  for the results property of a parsed object
Truthy(res) == res \notin {"absent", "zero"}

\* lines 35-49: [fatal, rows, sortable]; sortable is FALSE when cfHistoryRows
\* is left a value without a sort method
ParseFeed(body) ==
    LET v == body.v IN
    IF ~body.str THEN
        IF v.t = "array" THEN [rows |-> v.rows, sortable |-> TRUE]
        ELSE IF v.t = "object" /\ v.res = "array" THEN [rows |-> v.rows, sortable |-> TRUE]
        ELSE [rows |-> <<>>, sortable |-> TRUE]
    ELSE
        IF v.t = "invalid" THEN [rows |-> <<>>, sortable |-> TRUE]
        ELSE IF v.t = "array" THEN [rows |-> v.rows, sortable |-> TRUE]
        ELSE IF v.t = "null" THEN [rows |-> <<>>, sortable |-> TRUE]
        ELSE IF v.t = "object" /\ v.res = "array" THEN [rows |-> v.rows, sortable |-> TRUE]
        ELSE IF v.t = "object" /\ Truthy(v.res) THEN [rows |-> <<>>, sortable |-> FALSE]
        ELSE [rows |-> <<>>, sortable |-> TRUE]

\* mutant of SortRows: the rows are left in the order of the feed
SortRowsOmitted(rows) == rows

\* cfHistoryRows.sort((a, b) => a.timestamp - b.timestamp); a row without
\* timestamp compares as NaN wherever it lands, and step 3 throws on it
SortRows(rows) ==
    Vals(SortByKey([i \in 1..Len(rows) |->
        [key |-> IF rows[i].timestamp = <<>> THEN 0 ELSE rows[i].timestamp[1],
         val |-> rows[i]]]))


----------------------------------------------------------------------------
(* Live update, step 4: sort, prune, stats, discord *)

\* mutant of SortHistory: the history is left in the order of the appends
SortHistoryOmitted(vr_history) == vr_history

\* data.vr_history.sort((a, b) => new Date(a.date) - new Date(b.date))
SortHistory(vr_history) ==
    Vals(SortByKey([i \in 1..Len(vr_history) |->
        [key |-> DateOf(vr_history[i].date), val |-> vr_history[i]]]))

\* data.vr_history.filter(h => (now - new Date(h.date)) <= thirtyDays)
Prune(vr_history, t) ==
    SelectSeq(vr_history, LAMBDA h : t - DateOf(h.date) <= thirtyDays)

\* mutant of getVRAt: the last entry of the window is taken, not the first
getVRAtLastInWindow(vr_history, t, msAgo) ==
    LET targetTime == t - msAgo
        found == {i \in 1..Len(vr_history) : DateOf(vr_history[i].date) >= targetTime}
    IN IF found # {}
       THEN vr_history[CHOOSE i \in found : \A j \in found : i >= j].totalVR
       ELSE vr_history[1].totalVR

\* getVRAt(msAgo), for a non-empty history
getVRAt(vr_history, t, msAgo) ==
    LET targetTime == t - msAgo
        found == {i \in 1..Len(vr_history) : DateOf(vr_history[i].date) >= targetTime}
    IN IF found # {}
       THEN vr_history[CHOOSE i \in found : \A j \in found : i <= j].totalVR
       ELSE vr_history[1].totalVR

\* data.vrStats = {...}
vrStatsOf(vr_history, t) ==
    LET currentTotal == vr_history[Len(vr_history)].totalVR IN
    [last24Hours |-> currentTotal - getVRAt(vr_history, t, oneDay),
     lastWeek    |-> currentTotal - getVRAt(vr_history, t, sevenDays),
     lastMonth   |-> currentTotal - getVRAt(vr_history, t, thirtyDays)]

\* Discord Profile Sync (lines 131-142): the new value of data.discord
DiscordSync(discord, cacheProfile) ==
    LET stored == IF discord = "" THEN "unknown" ELSE discord IN
    IF cacheProfile # "" THEN
        IF cacheProfile = "not_linked" THEN
            IF stored = "unknown" \/ stored = "not_linked" THEN "not_linked" ELSE stored
        ELSE cacheProfile
    ELSE stored

\* lines 110-112: the history kept for one player
Retained(vr_history, t) == Prune(SortHistory(vr_history), t)

\* lines 116-142: the record that is saved, for a non-empty retained history
Finalized(data, t, cacheProfile) ==
    [data EXCEPT !.vr_history = Retained(data.vr_history, t),
                 !.vrStats = <<vrStatsOf(Retained(data.vr_history, t), t)>>,
                 !.discord = DiscordSync(data.discord, cacheProfile)]

----------------------------------------------------------------------------
(* Directories *)

NoFiles == [f \in {} |-> <<>>]

\* fs.readdir: the names in the order the file system gives them, which is
\* fixed for a given set of names
readdir(dir) ==
    CHOOSE s \in [1..Cardinality(DOMAIN dir) -> DOMAIN dir] :
        \A i, j \in 1..Cardinality(DOMAIN dir) : i # j => s[i] # s[j]

\* fs.writeJson(path.join(dir, `${safeFC}.json`), data)
writeJson(dir, data) ==
    [f \in DOMAIN dir \cup {safeFC(data.fc)} |->
        IF f = safeFC(data.fc) THEN data ELSE dir[f]]

\* lines 22-27: the files of loadDir, set into the map in directory order
RECURSIVE LoadFiles(_, _, _)
LoadFiles(map, dir, files) ==
    IF files = <<>> THEN map
    ELSE LoadFiles(MapSet(map, dir[files[1]]), dir, Tail(files))


----------------------------------------------------------------------------
(* Backfill (part_000) *)

\* The content of a revision is [t, recs]: t is "array" (JSON of an array of
\* player records), "object" (JSON of a value that is not iterable),
\* "invalid" (JSON.parse throws) or "fetchfail" (git show fails).

\* lines 73-97, for one player record p of the snapshot keyed date
ArchiveRecord(map, p, date) ==
    IF p.fc = <<>> THEN map
    ELSE
      LET m1 == IF HasKey(map, p.fc) THEN map
                ELSE Append(map, [name |-> NameOr(p.name, "Unknown"),
                                  fc |-> p.fc,
                                  vr_history |-> <<>>,
                                  discord |-> "",
                                  vrStats |-> <<>>])
          i == IndexOf(m1, p.fc)
          entry == m1[i]
          currentVR == currentVROf(p)
          h == entry.vr_history
          prevVR == IF Len(h) > 0 THEN h[Len(h)].totalVR ELSE currentVR
      IN [m1 EXCEPT ![i] = [entry EXCEPT
              !.name = NameOr(p.name, entry.name),
              !.vr_history = Append(h, [date |-> date,
                                        vrChange |-> currentVR - prevVR,
                                        totalVR |-> currentVR])]]

RECURSIVE ArchiveRecords(_, _, _)
ArchiveRecords(map, recs, date) ==
    IF recs = <<>> THEN map
    ELSE ArchiveRecords(ArchiveRecord(map, recs[1], date), Tail(recs), date)

\* snapshotMap.set(commit.date, players)
SnapshotSet(smap, date, content) ==
    IF \E i \in 1..Len(smap) : smap[i].date = date
    THEN [i \in 1..Len(smap) |->
            IF smap[i].date = date THEN [date |-> date, players |-> content] ELSE smap[i]]
    ELSE Append(smap, [date |-> date, players |-> content])

\* Array.from(snapshotMap.keys()).sort((a, b) => new Date(a) - new Date(b)),
\* each key with its snapshot
SortedSnapshots(smap) ==
    Vals(SortByKey([i \in 1..Len(smap) |-> [key |-> DateOf(smap[i].date), val |-> smap[i]]]))

\* lines 70-98: for (const p of players) throws on a value that is not iterable
RECURSIVE BuildHistory(_, _)
BuildHistory(map, snaps) ==
    IF snaps = <<>> THEN [fatal |-> FALSE, map |-> map]
    ELSE IF snaps[1].players.t # "array" THEN [fatal |-> TRUE, map |-> map]
    ELSE BuildHistory(ArchiveRecords(map, snaps[1].players.recs, snaps[1].date), Tail(snaps))

\* lines 102-105
RECURSIVE WriteAll(_, _)
WriteAll(dir, map) ==
    IF map = <<>> THEN dir
    ELSE WriteAll(writeJson(dir, map[1]), Tail(map))

\* lines 16-41: the archive is emptied, the repository cloned, the revisions listed
BackfillStart(cloneOk, commitList) ==
    /\ pcB = "idle" /\ pcU \in {"idle", "done", "fatal"}
    /\ ~backfilled
    /\ backfilled' = TRUE
    /\ archive' = [exists |-> TRUE, files |-> NoFiles]
    /\ snapshotMap' = <<>>
    /\ IF cloneOk
       THEN /\ commits' = commitList
            /\ pending' = 1..Len(commitList)
            /\ pcB' = "fetching"
       ELSE /\ commits' = <<>>
            /\ pending' = {}
            /\ pcB' = "fatal"
    /\ UNCHANGED <<clock, players, updateVars>>

\* lines 47-60: the task of commit i settles
FetchDone(i) ==
    /\ pcB = "fetching" /\ i \in pending
    /\ pending' = pending \ {i}
    /\ snapshotMap' = IF commits[i].content.t \in {"array", "object"}
                      THEN SnapshotSet(snapshotMap, commits[i].date, commits[i].content)
                      ELSE snapshotMap
    /\ UNCHANGED <<clock, archive, players, updateVars, pcB, commits, backfilled>>

\* lines 62-109: after Promise.all, the histories are built and written
BackfillBuild ==
    /\ pcB = "fetching" /\ pending = {}
    /\ LET built == BuildHistory(<<>>, SortedSnapshots(snapshotMap)) IN
       IF built.fatal
       THEN /\ pcB' = "fatal"
            /\ UNCHANGED archive
       ELSE /\ pcB' = "idle"
            /\ archive' = [exists |-> TRUE, files |-> WriteAll(archive.files, built.map)]
    /\ snapshotMap' = <<>>
    /\ commits' = <<>>
    /\ UNCHANGED <<clock, players, updateVars, pending, backfilled>>


----------------------------------------------------------------------------
(* Live update (generate_stats.js) *)

\* bound on the number of live updates, in the specifications that count them
MaxRuns == 3

\* historyRes.data before the feed is fetched
NoBody == [str |-> FALSE, v |-> [t |-> "none", res |-> "absent", rows |-> <<>>]]

NoCache == [fc \in {} |-> ""]

NoRun == [valid |-> FALSE, rows |-> <<>>, now |-> 0, map |-> <<>>]

\* discordCache[fc]
CacheGet(cache, fc) == IF fc \in DOMAIN cache THEN cache[fc] ELSE ""

\* lines 12-28: the base is loaded from archive/ when it exists, else from players/
UpdateLoad(counted) ==
    /\ pcU \in {"idle", "done", "fatal"} /\ pcB \in {"idle", "fatal"}
    /\ counted => runs < MaxRuns
    /\ hasArchive' = archive.exists
    /\ LET loadDir == IF archive.exists THEN archive.files ELSE players IN
       playerMap' = LoadFiles(<<>>, loadDir, readdir(loadDir))
    /\ feedBody' = NoBody
    /\ cfHistoryRows' = <<>>
    /\ discordCache' = NoCache
    /\ now' = 0
    /\ cursor' = 0
    /\ runs' = IF counted THEN runs + 1 ELSE runs
    /\ pcU' = "loaded"
    /\ UNCHANGED <<clock, archive, players, CF_WORKER_URL, lastRun, backfillVars>>

\* line 8: the environment of the next run is set up with or without the URL
SetEnv(url) ==
    /\ pcU \in {"idle", "done", "fatal"}
    /\ CF_WORKER_URL' = url
    /\ UNCHANGED <<clock, archive, players, pcU, playerMap, hasArchive, feedBody,
                   cfHistoryRows, discordCache, now, cursor, lastRun, runs, backfillVars>>

\* lines 12-28: ensureDir, readdir or readJson throws (a file of loadDir
\* that is no JSON), and the catch of line 157 ends the run
UpdateLoadThrows ==
    /\ pcU \in {"idle", "done", "fatal"} /\ pcB \in {"idle", "fatal"}
    /\ hasArchive' = archive.exists
    /\ playerMap' = <<>>
    /\ feedBody' = NoBody
    /\ cfHistoryRows' = <<>>
    /\ discordCache' = NoCache
    /\ now' = 0
    /\ cursor' = 0
    /\ pcU' = "fatal"
    /\ UNCHANGED <<clock, archive, players, CF_WORKER_URL, lastRun, runs, backfillVars>>

\* mutant of UpdateFetch: the feed is requested without the check of line 32
UpdateFetchUnchecked(url, body) ==
    /\ pcU = "loaded" /\ url = CF_WORKER_URL
    /\ feedBody' = body
    /\ IF body.v.t = "error" \/ ~ParseFeed(body).sortable
       THEN /\ pcU' = "fatal"
            /\ UNCHANGED cfHistoryRows
       ELSE /\ pcU' = "fetched"
            /\ cfHistoryRows' = SortRows(ParseFeed(body).rows)
    /\ UNCHANGED <<clock, archive, players, CF_WORKER_URL, playerMap, hasArchive,
                   discordCache, now, cursor, lastRun, runs, backfillVars>>

\* lines 30-52: the feed is fetched, parsed and sorted
UpdateFetch(url, body) ==
    /\ pcU = "loaded" /\ url = CF_WORKER_URL
    /\ feedBody' = IF url THEN body ELSE feedBody
    /\ IF ~url \/ body.v.t = "error" \/ ~ParseFeed(body).sortable
       THEN /\ pcU' = "fatal"
            /\ UNCHANGED cfHistoryRows
       ELSE /\ pcU' = "fetched"
            /\ cfHistoryRows' = SortRows(ParseFeed(body).rows)
    /\ UNCHANGED <<clock, archive, players, CF_WORKER_URL, playerMap, hasArchive,
                   discordCache, now, cursor, lastRun, runs, backfillVars>>

\* lines 54-106: the discord cache is fetched, the rows are merged, now is read
UpdateMerge(cache) ==
    /\ pcU = "fetched"
    /\ discordCache' = cache
    /\ LET merged == LiveRows(playerMap, cfHistoryRows) IN
       /\ playerMap' = merged.map
       /\ IF merged.fatal
          THEN /\ pcU' = "fatal"
               /\ UNCHANGED <<now, cursor>>
          ELSE /\ pcU' = "finalizing"
               /\ now' = clock
               /\ cursor' = 1
    /\ UNCHANGED <<clock, archive, players, CF_WORKER_URL, hasArchive, feedBody,
                   cfHistoryRows, lastRun, runs, backfillVars>>

\* lines 108-147: one iteration of the loop over playerMap
UpdateFinalizeOne(writeOk) ==
    /\ pcU = "finalizing" /\ cursor <= Len(playerMap)
    /\ LET data == playerMap[cursor]
           saved == Finalized(data, now, CacheGet(discordCache, data.fc))
       IN IF Retained(data.vr_history, now) = <<>>
          THEN /\ playerMap' = [playerMap EXCEPT ![cursor].vr_history = <<>>]
               /\ cursor' = cursor + 1
               /\ UNCHANGED <<players, pcU>>
          ELSE /\ playerMap' = [playerMap EXCEPT ![cursor] = saved]
               /\ IF writeOk
                  THEN /\ players' = writeJson(players, saved)
                       /\ cursor' = cursor + 1
                       /\ UNCHANGED pcU
                  ELSE /\ pcU' = "fatal"
                       /\ UNCHANGED <<players, cursor>>
    /\ UNCHANGED <<clock, archive, CF_WORKER_URL, hasArchive, feedBody, cfHistoryRows,
                   discordCache, now, lastRun, runs, backfillVars>>

\* mutant of UpdateCleanup: the archive is removed before the loop of step
\* 4 has saved every player
UpdateCleanupEarly(recorded) ==
    /\ pcU = "finalizing"
    /\ archive' = IF hasArchive THEN [exists |-> FALSE, files |-> NoFiles] ELSE archive
    /\ pcU' = "done"
    /\ lastRun' = IF recorded
                  THEN [valid |-> TRUE, rows |-> cfHistoryRows, now |-> now, map |-> playerMap]
                  ELSE lastRun
    /\ UNCHANGED <<clock, players, CF_WORKER_URL, playerMap, hasArchive, feedBody,
                   cfHistoryRows, discordCache, now, cursor, runs, backfillVars>>

\* lines 149-155: the archive is removed when the base came from it
UpdateCleanup(recorded) ==
    /\ pcU = "finalizing" /\ cursor > Len(playerMap)
    /\ archive' = IF hasArchive THEN [exists |-> FALSE, files |-> NoFiles] ELSE archive
    /\ pcU' = "done"
    /\ lastRun' = IF recorded
                  THEN [valid |-> TRUE, rows |-> cfHistoryRows, now |-> now, map |-> playerMap]
                  ELSE lastRun
    /\ UNCHANGED <<clock, players, CF_WORKER_URL, playerMap, hasArchive, feedBody,
                   cfHistoryRows, discordCache, now, cursor, runs, backfillVars>>

\* Time passes.  now is read once per run, so only the time that passes
\* between two runs matters.
Tick(t) ==
    /\ pcU \in {"idle", "done", "fatal"} /\ pcB \in {"idle", "fatal"}
    /\ t > clock
    /\ clock' = t
    /\ UNCHANGED <<archive, players, updateVars, backfillVars>>

----------------------------------------------------------------------------
(* Inputs *)

MaxRows == 2
MaxCommits == 2

FC1 == <<"7", "-", "1">>
FC2 == <<"7", ".", "2">>

Rec(fc, name, ev, vr) == [fc |-> fc, name |-> name, ev |-> ev, vr |-> vr]

Row(timestamp, str, t, recs) ==
    [timestamp |-> timestamp, data |-> [str |-> str, t |-> t, recs |-> recs]]

FeedRows ==
    { Row(<<120>>, FALSE, "array", <<Rec(FC1, "Ann", <<50>>, <<>>)>>),
      Row(<<240>>, FALSE, "array", <<Rec(FC1, "Ann", <<120>>, <<>>)>>),
      Row(<<240>>, TRUE, "map", <<Rec(FC1, "", <<>>, <<50>>), Rec(FC2, "Bob", <<70>>, <<>>)>>) }

SeqsUpTo(S, n) == UNION {[1..k -> S] : k \in 0..n}

ArrayBody(rows) == [str |-> FALSE, v |-> [t |-> "array", res |-> "absent", rows |-> rows]]

Value(t, res, rows) == [t |-> t, res |-> res, rows |-> rows]

\* the accepted shapes: an array of rows, an object with a results array, or
\* a string that is the JSON of either
AcceptedBodies ==
    {ArrayBody(rows) : rows \in SeqsUpTo(FeedRows, MaxRows)}
    \cup {[str |-> b, v |-> Value("object", "array", rows)] :
             b \in BOOLEAN, rows \in SeqsUpTo(FeedRows, 1)}
    \cup {[str |-> TRUE, v |-> Value("array", "absent", rows)] :
             rows \in SeqsUpTo(FeedRows, 1)}

\* every other shape: a value that is no array and no object with a results
\* array, a string that is no JSON ("not json"), or a string that is the
\* JSON of such a value
OtherBodies ==
    {[str |-> FALSE, v |-> Value(t, "absent", <<>>)] : t \in {"null", "number"}}
    \cup {[str |-> TRUE, v |-> Value(t, "absent", <<>>)] :
             t \in {"invalid", "null", "number", "string"}}
    \cup {[str |-> b, v |-> Value("object", res, <<>>)] :
             b \in BOOLEAN, res \in {"absent", "zero", "number", "string", "object"}}

Feeds == AcceptedBodies \cup OtherBodies

DiscordValues == {"not_linked", "id1", "id2"}

Caches == {NoCache} \cup {[fc \in {FC1} |-> d] : d \in DiscordValues}

Revisions ==
    { [hash |-> "c1", date |-> [wall |-> 0, zone |-> "+00:00"],
       content |-> [t |-> "array", recs |-> <<Rec(FC1, "Ann", <<0>>, <<>>)>>]],
      [hash |-> "c2", date |-> [wall |-> 241, zone |-> "+01:00"],
       content |-> [t |-> "array", recs |-> <<Rec(FC1, "Ann", <<50>>, <<>>),
                                             Rec(FC2, "", <<70>>, <<>>)>>]],
      [hash |-> "c3", date |-> [wall |-> 122, zone |-> "+02:00"],
       content |-> [t |-> "invalid", recs |-> <<>>]] }

CommitLists ==
    {c \in SeqsUpTo(Revisions, MaxCommits) :
        \A i, j \in 1..Len(c) : i # j => c[i].hash # c[j].hash}

ClockValues == {240, 900, 1000}

----------------------------------------------------------------------------
(* Specification *)

Init ==
    /\ clock = 240
    /\ archive = [exists |-> FALSE, files |-> NoFiles]
    /\ players = NoFiles
    /\ pcU = "idle"
    /\ CF_WORKER_URL = TRUE
    /\ playerMap = <<>>
    /\ hasArchive = FALSE
    /\ feedBody = NoBody
    /\ cfHistoryRows = <<>>
    /\ discordCache = NoCache
    /\ now = 0
    /\ cursor = 0
    /\ lastRun = NoRun
    /\ runs = 0
    /\ pcB = "idle"
    /\ commits = <<>>
    /\ pending = {}
    /\ snapshotMap = <<>>
    /\ backfilled = FALSE

Next ==
    \/ \E t \in ClockValues : Tick(t)
    \/ \E c \in CommitLists : BackfillStart(TRUE, c)
    \/ \E i \in 1..MaxCommits : FetchDone(i)
    \/ BackfillBuild
    \/ UpdateLoad(FALSE)
    \/ \E body \in Feeds : UpdateFetch(TRUE, body)
    \/ UpdateMerge(NoCache)
    \/ UpdateFinalizeOne(TRUE)
    \/ UpdateCleanup(FALSE)

Spec == Init /\ [][Next]_vars

\* The discord merge: few feeds, every kind of cache entry
DiscordFeeds == {ArrayBody(rows) : rows \in SeqsUpTo(FeedRows, 1)}

NextDiscord ==
    \/ \E t \in ClockValues : Tick(t)
    \/ \E c \in CommitLists : BackfillStart(TRUE, c)
    \/ \E i \in 1..MaxCommits : FetchDone(i)
    \/ BackfillBuild
    \/ UpdateLoad(FALSE)
    \/ \E body \in DiscordFeeds : UpdateFetch(TRUE, body)
    \/ \E cache \in Caches : UpdateMerge(cache)
    \/ UpdateFinalizeOne(TRUE)
    \/ UpdateCleanup(FALSE)

SpecDiscord == Init /\ [][NextDiscord]_vars

\* Repeated runs: the live updates are counted, and each completed run is
\* recorded in lastRun
NextTwice ==
    \/ \E t \in ClockValues : Tick(t)
    \/ \E c \in CommitLists : BackfillStart(TRUE, c)
    \/ \E i \in 1..MaxCommits : FetchDone(i)
    \/ BackfillBuild
    \/ UpdateLoad(TRUE)
    \/ \E rows \in SeqsUpTo(FeedRows, MaxRows) : UpdateFetch(TRUE, ArrayBody(rows))
    \/ UpdateMerge(NoCache)
    \/ UpdateFinalizeOne(TRUE)
    \/ UpdateCleanup(TRUE)

SpecTwice == Init /\ [][NextTwice]_vars


----------------------------------------------------------------------------
(* Claims *)

\* the histories in the files of players/, and in those of both directories
StoredHistories == {players[f].vr_history : f \in DOMAIN players}

PersistedHistories ==
    StoredHistories \cup {archive.files[f].vr_history : f \in DOMAIN archive.files}

\* C1: after any sequence of live updates, for any feed rows, no player's
\* vr_history in players/ holds two entries with the same date string
C1_NoDuplicateDates ==
    \A h \in StoredHistories :
        \A i, j \in 1..Len(h) : i # j => h[i].date # h[j].date

\* C1 witness: a completed run whose feed repeated a timestamp, and the
\* player of both rows has one entry of that date
C1_Witness ==
    /\ pcU = "done"
    /\ Len(cfHistoryRows) = 2
    /\ cfHistoryRows[1].timestamp = cfHistoryRows[2].timestamp
    /\ safeFC(FC1) \in DOMAIN players
    /\ exists(players[safeFC(FC1)].vr_history, toISOString(cfHistoryRows[1].timestamp[1]))

\* C2 as stated: in every persisted history, each vrChange after the first
\* is the difference of the entry's totalVR and the preceding entry's
C2_DeltaAgainstPreceding ==
    \A h \in PersistedHistories :
        \A i \in 2..Len(h) : h[i].vrChange = h[i].totalVR - h[i - 1].totalVR

\* C3 as stated: the first entry of every persisted history has vrChange
\* equal to its own totalVR
C3_FirstEntryIsTotal ==
    \A h \in PersistedHistories : h # <<>> => h[1].vrChange = h[1].totalVR

\* C3 amended: the entry either pipeline appends to an empty history has
\* vrChange 0 (its baseline is its own totalVR), and sorting and pruning
\* keep every retained entry as it was appended
C3_FirstEntryIsZero ==
    /\ [](\A f \in DOMAIN archive.files :
            archive.files[f].vr_history # <<>>
                => archive.files[f].vr_history[1].vrChange = 0)
    /\ [][(pcU = "fetched" /\ pcU' = "finalizing") =>
            \A i \in 1..Len(playerMap') :
                ((i > Len(playerMap) \/ playerMap[i].vr_history = <<>>)
                    /\ playerMap'[i].vr_history # <<>>)
                => playerMap'[i].vr_history[1].vrChange = 0]_vars
    /\ [][(pcU = "finalizing" /\ cursor' = cursor + 1) =>
            \A k \in 1..Len(playerMap'[cursor].vr_history) :
                \E j \in 1..Len(playerMap[cursor].vr_history) :
                    playerMap'[cursor].vr_history[k] = playerMap[cursor].vr_history[j]]_vars

\* C3 witness: the live update created a player and saved it; its first
\* entry has a totalVR other than 0 and the vrChange 0
C3_Witness ==
    /\ pcU = "done" /\ ~hasArchive
    /\ \E h \in StoredHistories :
          h # <<>> /\ h[1].date.zone = "Z" /\ h[1].totalVR # 0 /\ h[1].vrChange = 0

\* C4 as stated: in every persisted history the instants of the dates
\* strictly increase
C4_StrictlyIncreasing ==
    \A h \in PersistedHistories :
        \A i \in 2..Len(h) : DateOf(h[i - 1].date) < DateOf(h[i].date)

\* C4 amended: in every persisted history the instants of the dates never
\* decrease; two consecutive entries may be of the same instant when their
\* date strings differ
C4_NonDecreasing ==
    \A h \in PersistedHistories :
        \A i \in 2..Len(h) : DateOf(h[i - 1].date) <= DateOf(h[i].date)

\* C4 witness: a saved history with an archival entry and a live entry of
\* the same instant
C4_Witness ==
    \E h \in StoredHistories : \E i \in 2..Len(h) :
        /\ DateOf(h[i - 1].date) = DateOf(h[i].date)
        /\ h[i - 1].date.zone # "Z" /\ h[i].date.zone = "Z"

\* C6 as stated: after a completed live update no file of players/ holds an
\* entry older than thirty days at the run's now
C6_NoEntryOlderThanHorizon ==
    pcU = "done" =>
        \A h \in StoredHistories :
            \A i \in 1..Len(h) : now - DateOf(h[i].date) <= thirtyDays

\* C7 helper: stat is the latest total minus the total of the first entry
\* at or after now - w, or of the oldest entry when there is none
WindowDelta(h, stat, w) ==
    LET inWindow == {i \in 1..Len(h) : DateOf(h[i].date) >= now - w}
        latest == h[Len(h)].totalVR
    IN \/ /\ inWindow = {}
          /\ stat = latest - h[1].totalVR
       \/ \E i \in inWindow :
            /\ \A j \in inWindow : i <= j
            /\ stat = latest - h[i].totalVR

\* C7: for every player of a completed run with a retained history, each
\* stat is the window delta of its window
C7_WindowStats ==
    pcU = "done" =>
        \A i \in 1..Len(playerMap) :
            LET data == playerMap[i] IN
            data.vr_history # <<>> =>
                /\ data.vrStats # <<>>
                /\ WindowDelta(data.vr_history, data.vrStats[1].last24Hours, oneDay)
                /\ WindowDelta(data.vr_history, data.vrStats[1].lastWeek, sevenDays)
                /\ WindowDelta(data.vr_history, data.vrStats[1].lastMonth, thirtyDays)

\* C7 witness: totals 0, 50, 120 at ten days ago, five days ago and now
\* give the stats 0, 70, 120
C7_Witness ==
    /\ pcU = "done"
    /\ \E i \in 1..Len(playerMap) :
        LET h == playerMap[i].vr_history IN
        /\ Len(h) = 3
        /\ <<h[1].totalVR, h[2].totalVR, h[3].totalVR>> = <<0, 50, 120>>
        /\ <<DateOf(h[1].date), DateOf(h[2].date), DateOf(h[3].date)>>
              = <<now - 10 * oneDay, now - 5 * oneDay, now>>
        /\ playerMap[i].vrStats = <<[last24Hours |-> 0, lastWeek |-> 70, lastMonth |-> 120]>>

\* C10 as stated: a feed body of no accepted shape contributes no rows and
\* the run does not end in the fatal state
C10_OtherShapesAreEmptyFeeds ==
    feedBody \in OtherBodies => pcU # "fatal" /\ cfHistoryRows = <<>>


\* the run that completes in this step repeats the last completed run: the
\* same rows, the same now, and players/ as that run left it for its base
RepeatsLastRun ==
    /\ pcU = "finalizing" /\ pcU' = "done"
    /\ lastRun.valid /\ ~hasArchive
    /\ cfHistoryRows = lastRun.rows /\ now = lastRun.now

\* the vr_history a run leaves in memory for fc; empty for a player the
\* run has no record of
HistoryIn(map, fc) ==
    IF HasKey(map, fc) THEN map[IndexOf(map, fc)].vr_history ELSE <<>>

\* C5 as stated: a second run with the same rows and the same now yields,
\* for every player of the first run, the vr_history of the first run
C5_SecondRunIdentical ==
    [][RepeatsLastRun =>
        \A i \in 1..Len(lastRun.map) :
            HistoryIn(playerMap, lastRun.map[i].fc) = lastRun.map[i].vr_history]_vars

IsProfileId(discord) == discord \notin {"", "unknown", "not_linked"}

\* C8 as stated: once the discord value in a file of players/ is a profile
\* id, no run changes it to "not_linked"
C8_NeverDowngraded ==
    [][\A f \in DOMAIN players :
          IsProfileId(players[f].discord) => players'[f].discord # "not_linked"]_vars

\* C9 as stated: after a run, every player of the map whose fc has a
\* profile id in the cache has that id as its discord value
C9_CachedIdAdopted ==
    pcU = "done" =>
        \A i \in 1..Len(playerMap) :
            IsProfileId(CacheGet(discordCache, playerMap[i].fc))
                => playerMap[i].discord = CacheGet(discordCache, playerMap[i].fc)

----------------------------------------------------------------------------
(* Corrupt feed items *)

\* the corrupt items of a feed: a row whose data string is no JSON, a row
\* without data, a row without timestamp, and a record without fc
UnparsableRow == Row(<<240>>, TRUE, "invalid", <<>>)
NoDataRow == Row(<<240>>, FALSE, "absent", <<>>)
NoTimestampRow == Row(<<>>, FALSE, "array", <<Rec(FC1, "Ann", <<120>>, <<>>)>>)
NoFcRow ==
    Row(<<240>>, FALSE, "array", <<Rec(<<>>, "Eve", <<90>>, <<>>), Rec(FC2, "Bob", <<70>>, <<>>)>>)

SoundRow == Row(<<120>>, FALSE, "array", <<Rec(FC1, "Ann", <<50>>, <<>>)>>)

CorruptRows == {UnparsableRow, NoDataRow, NoTimestampRow, NoFcRow}

CorruptFeeds == {ArrayBody(rows) : rows \in SeqsUpTo(CorruptRows \cup {SoundRow}, MaxRows)}

NextCorrupt ==
    \/ \E t \in ClockValues : Tick(t)
    \/ \E c \in CommitLists : BackfillStart(TRUE, c)
    \/ \E i \in 1..MaxCommits : FetchDone(i)
    \/ BackfillBuild
    \/ UpdateLoad(FALSE)
    \/ \E body \in CorruptFeeds : UpdateFetch(TRUE, body)
    \/ UpdateMerge(NoCache)
    \/ UpdateFinalizeOne(TRUE)
    \/ UpdateCleanup(FALSE)

SpecCorrupt == Init /\ [][NextCorrupt]_vars

\* C11 as stated: a run whose feed holds a corrupt item (unparsable or
\* missing data, missing timestamp, record without fc) does not end in the
\* fatal state, and once the rows are merged every sound row of the feed
\* has left its entry in the player's history
C11_CorruptItemsSkipped ==
    (\E k \in 1..Len(cfHistoryRows) : cfHistoryRows[k] \in CorruptRows) =>
        /\ pcU # "fatal"
        /\ pcU \in {"finalizing", "done"} /\ cursor = 1 =>
              \A k \in 1..Len(cfHistoryRows) :
                  cfHistoryRows[k] = SoundRow =>
                      exists(HistoryIn(playerMap, FC1), toISOString(SoundRow.timestamp[1]))

----------------------------------------------------------------------------
(* Revisions: corrupt contents, and timestamps that coincide *)

Revision(hash, wall, zone, t, recs) ==
    [hash |-> hash, date |-> [wall |-> wall, zone |-> zone],
     content |-> [t |-> t, recs |-> recs]]

SoundRevision == Revision("r1", 0, "+00:00", "array", <<Rec(FC1, "Ann", <<0>>, <<>>)>>)

\* the corrupt revisions: git show fails, the content is no JSON, the
\* content is the JSON of a value that is no array
CorruptRevisions ==
    { Revision("r5", 100, "+00:00", "fetchfail", <<>>),
      Revision("r6", 122, "+02:00", "invalid", <<>>),
      Revision("r7", 144, "+00:00", "object", <<>>) }

\* r2 and r3 carry the same timestamp string; r4 carries another string of
\* the same instant
CoincidingRevisions ==
    { Revision("r2", 241, "+01:00", "array", <<Rec(FC1, "Ann", <<50>>, <<>>)>>),
      Revision("r3", 241, "+01:00", "array", <<Rec(FC1, "Ann", <<70>>, <<>>)>>),
      Revision("r4", 240, "+00:00", "array", <<Rec(FC1, "Ann", <<90>>, <<>>)>>) }

RevisionLists ==
    {c \in SeqsUpTo({SoundRevision} \cup CorruptRevisions \cup CoincidingRevisions, MaxCommits) :
        \A i, j \in 1..Len(c) : i # j => c[i].hash # c[j].hash}

NextRevisions ==
    \/ \E t \in ClockValues : Tick(t)
    \/ \E c \in RevisionLists : BackfillStart(TRUE, c)
    \/ \E i \in 1..MaxCommits : FetchDone(i)
    \/ BackfillBuild
    \/ UpdateLoad(FALSE)
    \/ UpdateFetch(TRUE, ArrayBody(<<SoundRow>>))
    \/ UpdateMerge(NoCache)
    \/ UpdateFinalizeOne(TRUE)
    \/ UpdateCleanup(FALSE)

SpecRevisions == Init /\ [][NextRevisions]_vars

\* C12 as stated: a backfill whose list holds a corrupt revision (content
\* not fetched, or not the JSON of an array of player records) does not
\* end in the fatal state, and the sound revision of the list still has
\* its entry in the archive
C12_CorruptRevisionSkipped ==
    [][(/\ pcB = "fetching" /\ pcB' # "fetching"
        /\ \E i \in 1..Len(commits) : commits[i] \in CorruptRevisions)
       => /\ pcB' # "fatal"
          /\ (\E i \in 1..Len(commits) : commits[i] = SoundRevision)
                => /\ safeFC(FC1) \in DOMAIN archive'.files
                   /\ exists(archive'.files[safeFC(FC1)].vr_history, SoundRevision.date)]_vars

\* the snapshot map when the tasks settle in the order of the list
RECURSIVE SnapshotsInOrder(_, _)
SnapshotsInOrder(smap, cs) ==
    IF cs = <<>> THEN smap
    ELSE SnapshotsInOrder(
            IF cs[1].content.t \in {"array", "object"}
            THEN SnapshotSet(smap, cs[1].date, cs[1].content) ELSE smap,
            Tail(cs))

\* C13 as stated: whatever the order in which the fetches completed, the
\* archive a backfill writes is the one it writes when they complete in
\* the order of the list
C13_ArchiveIndependentOfOrder ==
    [][pcB = "fetching" /\ pcB' = "idle"
       => archive'.files =
             WriteAll(NoFiles,
                      BuildHistory(<<>>, SortedSnapshots(SnapshotsInOrder(<<>>, commits))).map)]_vars

----------------------------------------------------------------------------
(* Player records: ratings and names *)

\* records with ev 0 beside a vr, with both, with vr alone, with neither,
\* and with and without a name
RecordRows ==
    { Row(<<120>>, FALSE, "array", <<Rec(FC1, "Ann", <<0>>, <<70>>)>>),
      Row(<<200>>, FALSE, "array", <<Rec(FC1, "Anna", <<>>, <<60>>),
                                     Rec(FC2, "Bob", <<0>>, <<>>)>>),
      Row(<<240>>, FALSE, "array", <<Rec(FC1, "", <<50>>, <<30>>),
                                     Rec(FC2, "", <<>>, <<>>)>>) }

RecordRevisions ==
    { Revision("v1", 0, "+00:00", "array", <<Rec(FC1, "Ann", <<0>>, <<70>>)>>),
      Revision("v2", 241, "+01:00", "array", <<Rec(FC1, "", <<50>>, <<30>>),
                                              Rec(FC2, "", <<>>, <<>>)>>),
      Revision("v3", 122, "+02:00", "array", <<Rec(FC2, "Bob", <<>>, <<60>>)>>) }

RecordLists ==
    {c \in SeqsUpTo(RecordRevisions, MaxCommits) :
        \A i, j \in 1..Len(c) : i # j => c[i].hash # c[j].hash}

NextRecords ==
    \/ \E t \in ClockValues : Tick(t)
    \/ \E c \in RecordLists : BackfillStart(TRUE, c)
    \/ \E i \in 1..MaxCommits : FetchDone(i)
    \/ BackfillBuild
    \/ UpdateLoad(FALSE)
    \/ \E rows \in SeqsUpTo(RecordRows, MaxRows) : UpdateFetch(TRUE, ArrayBody(rows))
    \/ UpdateMerge(NoCache)
    \/ UpdateFinalizeOne(TRUE)
    \/ UpdateCleanup(FALSE)

SpecRecords == Init /\ [][NextRecords]_vars

\* the rating of a record as the claim reads it: ev when supplied, else vr
\* when supplied, else 0
RatingOf(p) ==
    IF p.ev # <<>> THEN p.ev[1] ELSE IF p.vr # <<>> THEN p.vr[1] ELSE 0

\* record j of row k is the first of its fc and timestamp in the sorted
\* feed, and the base has no entry of its date: the merge appends its entry
AppendsEntry(k, j) ==
    LET p == cfHistoryRows[k].data.recs[j]
        ts == cfHistoryRows[k].timestamp
    IN /\ p.fc # <<>>
       /\ ~exists(HistoryIn(playerMap, p.fc), toISOString(ts[1]))
       /\ \A k2 \in 1..k :
            \A j2 \in 1..Len(cfHistoryRows[k2].data.recs) :
                (k2 < k \/ j2 < j) =>
                    ~(/\ cfHistoryRows[k2].timestamp = ts
                      /\ cfHistoryRows[k2].data.recs[j2].fc = p.fc)

\* C14 as stated: the entry that the live merge or the backfill appends
\* for a record has totalVR equal to ev when the record supplies ev (0
\* included), else to vr when it supplies vr, else to 0
C14_RatingPrefersEv ==
    [][/\ (pcU = "fetched" /\ pcU' = "finalizing") =>
            \A k \in 1..Len(cfHistoryRows) :
                \A j \in 1..Len(cfHistoryRows[k].data.recs) :
                    AppendsEntry(k, j) =>
                        LET p == cfHistoryRows[k].data.recs[j]
                            h == HistoryIn(playerMap', p.fc)
                        IN \E e \in 1..Len(h) :
                              /\ h[e].date = toISOString(cfHistoryRows[k].timestamp[1])
                              /\ h[e].totalVR = RatingOf(p)
       /\ (pcB = "fetching" /\ pcB' = "idle") =>
            \A s \in 1..Len(snapshotMap) :
                \A j \in 1..Len(snapshotMap[s].players.recs) :
                    LET p == snapshotMap[s].players.recs[j] IN
                    p.fc # <<>> =>
                        LET h == archive'.files[safeFC(p.fc)].vr_history IN
                        \E e \in 1..Len(h) :
                            /\ h[e].date = snapshotMap[s].date
                            /\ h[e].totalVR = RatingOf(p)]_vars

\* every record in memory and in a file
AllRecords ==
    {playerMap[i] : i \in 1..Len(playerMap)}
    \cup {players[f] : f \in DOMAIN players}
    \cup {archive.files[f] : f \in DOMAIN archive.files}

\* the positions <<k, j>> of the records of fc with a name, in a sequence
\* of record sequences
NamedAt(recss, fc) ==
    {kj \in UNION {{<<k, j>> : j \in 1..Len(recss[k])} : k \in 1..Len(recss)} :
        recss[kj[1]][kj[2]].fc = fc /\ recss[kj[1]][kj[2]].name # ""}

\* the last of a non-empty set of positions
LastAt(S) ==
    CHOOSE kj \in S :
        \A o \in S : o[1] < kj[1] \/ (o[1] = kj[1] /\ o[2] <= kj[2])

\* the name the claim gives fc after the records recss: that of the last
\* record of fc with a name, else the name it had
RetainedName(recss, fc, before) ==
    IF NamedAt(recss, fc) # {}
    THEN LET kj == LastAt(NamedAt(recss, fc)) IN recss[kj[1]][kj[2]].name
    ELSE before

NameIn(map, fc) == IF HasKey(map, fc) THEN map[IndexOf(map, fc)].name ELSE "Unknown"

\* C15: no record ever has a blank name, and after the live merge and
\* after the backfill every player has the name of the last record of its
\* fc that carried one, or else the name it had before ("Unknown" for a
\* new player)
C15_NameRetained ==
    /\ [](\A data \in AllRecords : data.name # "")
    /\ [][(pcU = "fetched" /\ pcU' = "finalizing") =>
            LET recss == [k \in 1..Len(cfHistoryRows) |-> cfHistoryRows[k].data.recs] IN
            \A i \in 1..Len(playerMap') :
                playerMap'[i].name
                    = RetainedName(recss, playerMap'[i].fc, NameIn(playerMap, playerMap'[i].fc))]_vars
    /\ [][(pcB = "fetching" /\ pcB' = "idle") =>
            LET snaps == SortedSnapshots(snapshotMap)
                recss == [k \in 1..Len(snaps) |-> snaps[k].players.recs]
            IN \A f \in DOMAIN archive'.files :
                archive'.files[f].name
                    = RetainedName(recss, archive'.files[f].fc, "Unknown")]_vars

\* C15 witness: the feed names FC1 "Anna" and FC2 "Bob" in one row and
\* carries both without a name in a later row; the saved names are kept
C15_Witness ==
    /\ pcU = "done"
    /\ Len(cfHistoryRows) = 2
    /\ cfHistoryRows[1].timestamp = <<200>> /\ cfHistoryRows[2].timestamp = <<240>>
    /\ cfHistoryRows[2].data.recs[1].name = ""
    /\ safeFC(FC1) \in DOMAIN players /\ players[safeFC(FC1)].name = "Anna"
    /\ safeFC(FC2) \in DOMAIN players /\ players[safeFC(FC2)].name = "Bob"

----------------------------------------------------------------------------
(* Fatal runs *)

TwoPlayersRow ==
    Row(<<240>>, FALSE, "array", <<Rec(FC1, "Ann", <<120>>, <<>>), Rec(FC2, "Bob", <<70>>, <<>>)>>)

\* axios.get throws
ErrorBody == [str |-> FALSE, v |-> Value("error", "absent", <<>>)]

\* a string that is the JSON of an object whose results is a number
UnsortableBody == [str |-> TRUE, v |-> Value("object", "number", <<>>)]

FatalFeeds ==
    {ArrayBody(rows) : rows \in SeqsUpTo({SoundRow, TwoPlayersRow, NoDataRow}, MaxRows)}
    \cup {ErrorBody, UnsortableBody}

NextFatal ==
    \/ \E t \in ClockValues : Tick(t)
    \/ \E c \in CommitLists : BackfillStart(TRUE, c)
    \/ \E i \in 1..MaxCommits : FetchDone(i)
    \/ BackfillBuild
    \/ \E url \in BOOLEAN : SetEnv(url)
    \/ UpdateLoad(FALSE)
    \/ UpdateLoadThrows
    \/ \E url \in BOOLEAN, body \in FatalFeeds : UpdateFetch(url, body)
    \/ UpdateMerge(NoCache)
    \/ \E writeOk \in BOOLEAN : UpdateFinalizeOne(writeOk)
    \/ UpdateCleanup(FALSE)

SpecFatal == Init /\ [][NextFatal]_vars

\* C16: a run started without CF_WORKER_URL goes from the loaded base to
\* the fatal state, and neither its load nor that step changes players/
C16_NoUrlIsFatal ==
    [][/\ (pcU = "loaded" /\ ~CF_WORKER_URL) => (pcU' = "fatal" /\ players' = players)
       /\ pcU' = "loaded" => players' = players]_vars

\* C16 witness: a run without the URL has ended fatal after it loaded a
\* base from the files of an earlier run, and no feed was requested
C16_Witness ==
    /\ pcU = "fatal" /\ ~CF_WORKER_URL
    /\ feedBody = NoBody
    /\ playerMap # <<>>
    /\ players # NoFiles

\* C20: the live update removes archive/ only in the step that ends the
\* run, after the loop of step 4 has passed every player and every player
\* with a retained history has its file; and after a run that ended fatal,
\* an archive that existed when the run started still exists
C20_ArchiveConsumedOnSuccess ==
    /\ [](pcU = "fatal" /\ hasArchive => archive.exists)
    /\ [][(archive.exists /\ ~archive'.exists) =>
            /\ pcU = "finalizing" /\ pcU' = "done"
            /\ cursor > Len(playerMap)
            /\ \A i \in 1..Len(playerMap) :
                  playerMap[i].vr_history # <<>> => safeFC(playerMap[i].fc) \in DOMAIN players]_vars

\* C20 witness: a run on the archive has saved its first player, the write
\* of the second has failed, and archive/ is still there
C20_Witness ==
    /\ pcU = "fatal" /\ hasArchive
    /\ cursor = 2 /\ Len(playerMap) = 2
    /\ safeFC(playerMap[1].fc) \in DOMAIN players
    /\ archive.exists /\ archive.files # NoFiles

----------------------------------------------------------------------------
(* The order of the rows *)

Occurrences(s, x) == Cardinality({i \in 1..Len(s) : s[i] = x})

\* C17: once the feed is fetched, cfHistoryRows holds the rows of the feed
\* in ascending order of timestamp, whatever their order in the feed, and
\* the entries that the merge appends to a player's history are in
\* non-decreasing order of date
C17_RowsAscending ==
    /\ [](pcU \in {"fetched", "finalizing", "done"} =>
            LET fed == ParseFeed(feedBody).rows IN
            /\ Len(cfHistoryRows) = Len(fed)
            /\ \A k \in 1..Len(fed) :
                  Occurrences(cfHistoryRows, fed[k]) = Occurrences(fed, fed[k])
            /\ \A k, l \in 1..Len(cfHistoryRows) :
                  k < l => cfHistoryRows[k].timestamp[1] <= cfHistoryRows[l].timestamp[1])
    /\ [][(pcU = "fetched" /\ pcU' = "finalizing") =>
            \A i \in 1..Len(playerMap') :
                LET h == playerMap'[i].vr_history
                    base == Len(HistoryIn(playerMap, playerMap'[i].fc))
                IN \A a, b \in (base + 1)..Len(h) :
                      a < b => DateOf(h[a].date) <= DateOf(h[b].date)]_vars

\* C17 witness: the feed carried the later row first, and the merge has
\* appended the entry of the earlier row before that of the later row
C17_Witness ==
    /\ pcU = "finalizing" /\ cursor = 1
    /\ feedBody.v.t = "array" /\ Len(feedBody.v.rows) = 2
    /\ feedBody.v.rows[1].timestamp[1] > feedBody.v.rows[2].timestamp[1]
    /\ LET h == HistoryIn(playerMap, FC1) IN
       /\ Len(h) >= 2
       /\ h[Len(h) - 1].date = toISOString(feedBody.v.rows[2].timestamp[1])
       /\ h[Len(h)].date = toISOString(feedBody.v.rows[1].timestamp[1])

----------------------------------------------------------------------------
(* The two folds on the same snapshots *)

\* populations: one player; two players, one without a name; the same fc
\* twice; a record without fc
Populations ==
    { <<Rec(FC1, "Ann", <<50>>, <<>>)>>,
      <<Rec(FC1, "", <<>>, <<120>>), Rec(FC2, "Bob", <<70>>, <<>>)>>,
      <<Rec(FC1, "Ann", <<50>>, <<>>), Rec(FC1, "Anna", <<120>>, <<>>)>>,
      <<Rec(<<>>, "Eve", <<90>>, <<>>), Rec(FC2, "", <<0>>, <<>>)>> }

FoldInstants == {0, 120, 240}

\* the sequences of snapshots [at, recs] with strictly increasing instants
SnapshotSeqs ==
    {s \in SeqsUpTo([at : FoldInstants, recs : Populations], MaxCommits) :
        \A k \in 1..(Len(s) - 1) : s[k].at < s[k + 1].at}

\* the snapshots as the revisions of the backfill and as the rows of the feed
AsCommits(s) ==
    [k \in 1..Len(s) |->
        [hash |-> "h", date |-> [wall |-> s[k].at, zone |-> "+00:00"],
         content |-> [t |-> "array", recs |-> s[k].recs]]]

AsSnapshotMap(s) ==
    [k \in 1..Len(s) |->
        [date |-> [wall |-> s[k].at, zone |-> "+00:00"],
         players |-> [t |-> "array", recs |-> s[k].recs]]]

AsRows(s) == [k \in 1..Len(s) |-> Row(<<s[k].at>>, FALSE, "array", s[k].recs)]

\* Both jobs hold the same snapshots and an empty player map: the backfill
\* after its last fetch has settled, the live update after it has fetched
\* the feed on an empty base
InitFold ==
    /\ clock = 240
    /\ archive = [exists |-> TRUE, files |-> NoFiles]
    /\ players = NoFiles
    /\ CF_WORKER_URL = TRUE
    /\ playerMap = <<>>
    /\ hasArchive = FALSE
    /\ discordCache = NoCache
    /\ now = 0
    /\ cursor = 0
    /\ lastRun = NoRun
    /\ runs = 0
    /\ pending = {}
    /\ backfilled = TRUE
    /\ pcU = "fetched"
    /\ pcB = "fetching"
    /\ \E s \in SnapshotSeqs :
        /\ commits = AsCommits(s)
        /\ snapshotMap = AsSnapshotMap(s)
        /\ feedBody = ArrayBody(AsRows(s))
        /\ cfHistoryRows = AsRows(s)

NextFold ==
    \/ BackfillBuild
    \/ UpdateMerge(NoCache)

SpecFold == InitFold /\ [][NextFold]_vars

\* the (vrChange, totalVR) pairs of a history
Deltas(vr_history) ==
    [k \in 1..Len(vr_history) |-> <<vr_history[k].vrChange, vr_history[k].totalVR>>]

\* C18 as stated: when both folds have run on the same snapshots of
\* pairwise distinct timestamps, they hold the same players, and for each
\* player the same name and the same sequence of (vrChange, totalVR)
C18_FoldsAgree ==
    (pcB = "idle" /\ pcU = "finalizing") =>
        /\ DOMAIN archive.files = {safeFC(playerMap[i].fc) : i \in 1..Len(playerMap)}
        /\ \A i \in 1..Len(playerMap) :
              LET data == archive.files[safeFC(playerMap[i].fc)] IN
              /\ data.name = playerMap[i].name
              /\ Deltas(data.vr_history) = Deltas(playerMap[i].vr_history)

----------------------------------------------------------------------------
(* File names *)

\* FC2 and FC3 differ in a character that safeFC replaces
FC3 == <<"7", "_", "2">>

FileRows ==
    { SoundRow,
      Row(<<240>>, FALSE, "array", <<Rec(FC2, "Bob", <<70>>, <<>>), Rec(FC3, "Cid", <<90>>, <<>>)>>) }

FileRevisions ==
    { Revision("f1", 0, "+00:00", "array", <<Rec(FC1, "Ann", <<0>>, <<>>)>>),
      Revision("f2", 241, "+01:00", "array", <<Rec(FC3, "Cid", <<90>>, <<>>),
                                              Rec(FC2, "Bob", <<70>>, <<>>)>>) }

FileLists ==
    {c \in SeqsUpTo(FileRevisions, MaxCommits) :
        \A i, j \in 1..Len(c) : i # j => c[i].hash # c[j].hash}

NextFiles ==
    \/ \E t \in ClockValues : Tick(t)
    \/ \E c \in FileLists : BackfillStart(TRUE, c)
    \/ \E i \in 1..MaxCommits : FetchDone(i)
    \/ BackfillBuild
    \/ UpdateLoad(FALSE)
    \/ \E rows \in SeqsUpTo(FileRows, MaxRows) : UpdateFetch(TRUE, ArrayBody(rows))
    \/ UpdateMerge(NoCache)
    \/ UpdateFinalizeOne(TRUE)
    \/ UpdateCleanup(FALSE)

SpecFiles == Init /\ [][NextFiles]_vars

\* the file of the directory that the record of fc was written to holds
\* the record of fc
InOwnFile(dir, fc) == safeFC(fc) \in DOMAIN dir /\ dir[safeFC(fc)].fc = fc

\* C19 as stated: after a completed live update every player of the map
\* with a retained history is in its own file of players/, and after a
\* completed backfill every player of a snapshot is in its own file of
\* archive/
C19_OneFilePerPlayer ==
    /\ [](pcU = "done" =>
            \A i \in 1..Len(playerMap) :
                playerMap[i].vr_history # <<>> => InOwnFile(players, playerMap[i].fc))
    /\ [][(pcB = "fetching" /\ pcB' = "idle") =>
            \A s \in 1..Len(snapshotMap) :
                \A j \in 1..Len(snapshotMap[s].players.recs) :
                    LET p == snapshotMap[s].players.recs[j] IN
                    p.fc # <<>> => InOwnFile(archive'.files, p.fc)]_vars

====
